---- MODULE Spec2Model ----
(***************************************************************************)
(* Model of swagger_aggregator/swagger_aggregator.py: the retry wrapper    *)
(* retry_http and the SwaggerAggregator operations.  Each component has    *)
(* its own specification over the shared variables; strings that the code  *)
(* takes apart (schema names, path templates, urls) are sequences of       *)
(* one-character strings.                                                  *)
(***************************************************************************)
EXTENDS Integers, Sequences, FiniteSets, TLC

VARIABLES
    \* retry_http._retry_http: its locals, and what one call has done so far
    retry_pc, total_sleep_time, request_nb, last_exception,
    slept, sleep_calls, history, retry_result,
    \* SwaggerAggregator: the configuration and the registry of upstream specs
    yaml_apis, yaml_exclude_paths, yaml_exclude_fields,
    swagger_apis, swagger_order, errors,
    \* get_aggregate_swagger: the loop position and what the passes have done
    fetch_idx, fetch_pass, fetched, last_fetch, cached_at_start, returned_apis,
    \* exclude_paths: its argument and its return value
    exclude_pc, exclude_in, exclude_out,
    \* generate_swagger_json: its position, its locals, and what it publishes
    gen_pc, gen_error, base_swagger, merge_idx, gen_todo, gen_tables,
    uuid_counter, module_funcs, swagger_parser, written,
    \* filter_definition: the parser's answer for a dict, the argument, the outcome
    get_dict_definition, filter_pc, filter_doc, filter_out,
    \* a generated function func: the request it serves and what it has built
    dispatch_pc, dispatch_func, dispatch_kwargs, dispatch_query, dispatch_url, dispatch_sent,
    \* requests served while passes run: the calls of generate_swagger_json so
    \* far, and the swagger_parser that the filter of the response read
    serve_calls, serve_parser

retryVars == <<retry_pc, total_sleep_time, request_nb, last_exception,
               slept, sleep_calls, history, retry_result>>
registryVars == <<yaml_apis, yaml_exclude_paths, yaml_exclude_fields,
                  swagger_apis, swagger_order, errors>>
configVars == <<yaml_apis, yaml_exclude_paths, yaml_exclude_fields>>
generateVars == <<gen_pc, gen_error, base_swagger, merge_idx, gen_todo, gen_tables,
                  uuid_counter, module_funcs, swagger_parser, written>>
excludeVars == <<exclude_pc, exclude_in, exclude_out>>
fetchVars == <<fetch_idx, fetch_pass, fetched, last_fetch, cached_at_start, returned_apis>>

filterVars == <<get_dict_definition, filter_pc, filter_doc, filter_out>>

dispatchVars == <<dispatch_pc, dispatch_func, dispatch_kwargs, dispatch_query,
                  dispatch_url, dispatch_sent>>

serveVars == <<serve_calls, serve_parser>>

vars == <<retryVars, registryVars, fetchVars, excludeVars, generateVars, filterVars,
          dispatchVars, serveVars>>

\* what the steps of one component leave alone
notRetry == <<registryVars, fetchVars, excludeVars, generateVars, filterVars, dispatchVars,
             serveVars>>
notFetch == <<retryVars, excludeVars, generateVars, filterVars, dispatchVars, serveVars>>
notExclude == <<retryVars, fetchVars, generateVars, filterVars, dispatchVars, serveVars>>
notGenerate == <<retryVars, fetchVars, excludeVars, filterVars, dispatchVars, serveVars>>
notFilter == <<retryVars, fetchVars, excludeVars, generateVars, dispatchVars, serveVars>>
notDispatch == <<retryVars, registryVars, fetchVars, excludeVars, generateVars, filterVars,
                serveVars>>

RECURSIVE Pow(_, _)
Pow(b, n) == IF n = 0 THEN 1 ELSE b * Pow(b, n - 1)

----------------------------------------------------------------------------
(* retry_http: exponential backoff around one call.                        *)
(* Times are exact multiples of 1 / (MultiplierDen^BackoffSteps *          *)
(* RetryIntervalDen * 1000) seconds, so that every product the code forms  *)
(* is an integer.                                                          *)

\* multiplier = 1.5 = MultiplierNum / MultiplierDen
MultiplierNum == 3
MultiplierDen == 2
\* retry_interval = 0.5 = 1 / RetryIntervalDen
RetryIntervalDen == 2
\* randomization_factor = 0.5, in thousandths
RandomizationMilli == 500
\* max_sleep_time = 10 (seconds)
MaxSleepSeconds == 10

\* Largest request_nb the time unit can represent exactly.
BackoffSteps == 8
\* random.randint(0, 1000) is sampled at JitterSteps + 1 evenly spaced draws.
JitterSteps == 4

TicksPerSecond == Pow(MultiplierDen, BackoffSteps) * RetryIntervalDen * 1000
max_sleep_time == MaxSleepSeconds * TicksPerSecond

\* random.randint(0, int(2 * randomization_factor * 1000))
JitterDraws == {(i * 2 * RandomizationMilli) \div JitterSteps : i \in 0..JitterSteps}

\* multiplier ** request_nb * (retry_interval * (draw / 1000. + 1 - randomization_factor))
NextRetrySleep(nb, draw) ==
    Pow(MultiplierNum, nb) * Pow(MultiplierDen, BackoffSteps - nb)
        * (draw + 1000 - RandomizationMilli)

NoException == [kind |-> "None", attempt |-> 0]
ConnectionError(n) == [kind |-> "ConnectionError", attempt |-> n]
OtherError(n) == [kind |-> "OtherError", attempt |-> n]
Returned(v) == [kind |-> "Returned", attempt |-> v]
ResultValues == {1, 2}

\* while total_sleep_time < max_sleep_time
RetryLoopGuard == retry_pc = "loop" /\ total_sleep_time < max_sleep_time

\* the exception kept for the final raise: last_exception = exc
KeepFirstException(prev, exc) == IF prev = NoException THEN exc ELSE prev
KeepException(prev, exc) == exc

RetryInit ==
    /\ retry_pc = "loop"
    /\ total_sleep_time = 0
    /\ request_nb = 0
    /\ last_exception = NoException
    /\ slept = 0
    /\ sleep_calls = 0
    /\ history = <<>>
    /\ retry_result = NoException

\* return call(*args, **kwargs)
RetryCallReturns ==
    /\ RetryLoopGuard
    /\ \E v \in ResultValues :
          /\ history' = Append(history, Returned(v))
          /\ retry_result' = Returned(v)
    /\ retry_pc' = "returned"
    /\ UNCHANGED <<total_sleep_time, request_nb, last_exception, slept, sleep_calls>>
    /\ UNCHANGED notRetry

\* call raises something that is not a ConnectionError: it propagates
RetryCallRaisesOther ==
    /\ RetryLoopGuard
    /\ history' = Append(history, OtherError(Len(history) + 1))
    /\ retry_result' = OtherError(Len(history) + 1)
    /\ retry_pc' = "raised"
    /\ UNCHANGED <<total_sleep_time, request_nb, last_exception, slept, sleep_calls>>
    /\ UNCHANGED notRetry

\* except ConnectionError as exc: account the sleep, then time.sleep
RetryCallRaisesConnectionError ==
    /\ RetryLoopGuard
    /\ request_nb < BackoffSteps
    /\ \E draw \in JitterDraws :
          LET next_retry_sleep == NextRetrySleep(request_nb, draw) IN
          /\ total_sleep_time' = total_sleep_time + next_retry_sleep
          /\ slept' = slept + next_retry_sleep
    /\ sleep_calls' = sleep_calls + 1
    /\ request_nb' = request_nb + 1
    /\ last_exception' = KeepException(last_exception, ConnectionError(Len(history) + 1))
    /\ history' = Append(history, ConnectionError(Len(history) + 1))
    /\ UNCHANGED <<retry_pc, retry_result>>
    /\ UNCHANGED notRetry

\* the loop condition fails: raise last_exception
RetryGiveUp ==
    /\ retry_pc = "loop"
    /\ ~(total_sleep_time < max_sleep_time)
    /\ retry_result' = last_exception
    /\ retry_pc' = "raised"
    /\ UNCHANGED <<total_sleep_time, request_nb, last_exception, slept, sleep_calls, history>>
    /\ UNCHANGED notRetry

RetryNext ==
    \/ RetryCallReturns
    \/ RetryCallRaisesOther
    \/ RetryCallRaisesConnectionError
    \/ RetryGiveUp

----------------------------------------------------------------------------
(* Strings.  str.startswith, str.replace and str.split on sequences.       *)

StartsWith(s, prefix) ==
    /\ Len(prefix) <= Len(s)
    /\ SubSeq(s, 1, Len(prefix)) = prefix

\* s.replace(old, new): every non-overlapping occurrence, leftmost first
RECURSIVE Replace(_, _, _)
Replace(s, old, new) ==
    IF Len(s) < Len(old) \/ old = <<>> THEN s
    ELSE IF StartsWith(s, old)
         THEN new \o Replace(SubSeq(s, Len(old) + 1, Len(s)), old, new)
         ELSE <<Head(s)>> \o Replace(Tail(s), old, new)

\* the elements of a sequence
Range(s) == {s[i] : i \in DOMAIN s}

\* a sequence without its first occurrence of x: list.remove(x)
RECURSIVE RemoveFirst(_, _)
RemoveFirst(s, x) ==
    IF s = <<>> THEN s
    ELSE IF Head(s) = x THEN Tail(s)
    ELSE <<Head(s)>> \o RemoveFirst(Tail(s), x)

\* a function without the key k: del d[k]
Without(f, k) == [x \in DOMAIN f \ {k} |-> f[x]]

\* a function with d[k] = v set
With(f, k, v) == [x \in DOMAIN f \cup {k} |-> IF x = k THEN v ELSE f[x]]

EmptyMap == [x \in {} |-> 0]

----------------------------------------------------------------------------
(* The configuration (yaml_file) and the upstream specs.                   *)

\* the names of yaml_file['apis'], in the order .items() yields them
ApiOrder == << <<"a">>, <<"a", "b">> >>
ApiNames == Range(ApiOrder)

\* yaml_file['apis'] values: url templates holding the names of 'args'
UrlTemplates == { <<"h", "1">>, <<"h", "2">> }

\* self.args_dict after get_args: arg name -> the value given to __init__
ArgsOrder == << <<"1">>, <<"2">> >>
args_dict == [k \in Range(ArgsOrder) |-> IF k = <<"1">> THEN <<"t">> ELSE <<"r">>]

\* parse_value: replace every arg name by its value, one arg after the other
RECURSIVE ParseValueFrom(_, _)
ParseValueFrom(value, i) ==
    IF i > Len(ArgsOrder) THEN value
    ELSE ParseValueFrom(Replace(value, ArgsOrder[i], args_dict[ArgsOrder[i]]), i + 1)
parse_value(value) == ParseValueFrom(value, 1)

\* an operation object of an upstream's spec, with the operationId it came with
Operation(owner) == [owner |-> owner, operationId |-> <<"upstream">>, refs |-> {}]

\* the bodies a successful GET {url}/swagger.json may return
EmptySpec == [definitions |-> EmptyMap, paths |-> EmptyMap]
FetchedSpec(n) == [definitions |-> EmptyMap,
                   paths |-> [p \in {<<"/", "p">>} |-> [m \in {<<"get">>} |-> Operation(n)]]]
FetchBodies == {EmptySpec} \cup {FetchedSpec(n) : n \in ApiNames}

----------------------------------------------------------------------------
(* get_aggregate_swagger: one pass over yaml_file['apis'].                 *)

\* Passes of get_aggregate_swagger a behaviour may hold.
MaxPasses == 2

FetchFailures == {"ConnectionError", "JSONDecodeError"}

\* if api_name not in self.swagger_apis
NeedsFetchAlways(api_name) == TRUE
NeedsFetch(api_name) == api_name \notin DOMAIN swagger_apis

\* self.errors.remove(api_url); the ValueError of a missing url is caught and logged
ErrorsAfterSuccess(errs, api_url) == RemoveFirst(errs, api_url)

\* if api_url not in self.errors: self.errors.append(api_url)
ErrorsAfterFailure(errs, api_url) ==
    IF api_url \in Range(errs) THEN errs ELSE Append(errs, api_url)

FetchIdle ==
    /\ fetch_idx = 0
    /\ fetch_pass = 0
    /\ fetched = [a \in ApiNames |-> 0]
    /\ last_fetch = [a \in ApiNames |-> "none"]
    /\ cached_at_start = {}
    /\ returned_apis = EmptyMap

\* __init__: self.errors = [], self.swagger_apis = {}
RegistryInit ==
    /\ yaml_apis \in [ApiNames -> UrlTemplates]
    /\ yaml_exclude_paths = <<>>
    /\ yaml_exclude_fields = EmptyMap
    /\ swagger_order = <<>>
    /\ swagger_apis = EmptyMap
    /\ errors = <<>>

\* a call of get_aggregate_swagger enters the loop over yaml_file['apis'].items()
FetchStartPass ==
    /\ fetch_idx = 0
    /\ fetch_pass < MaxPasses
    /\ fetch_pass' = fetch_pass + 1
    /\ fetch_idx' = 1
    /\ fetched' = [a \in ApiNames |-> 0]
    /\ cached_at_start' = DOMAIN swagger_apis
    /\ UNCHANGED <<last_fetch, returned_apis, registryVars>>
    /\ UNCHANGED notFetch

\* the upstream is cached already: the loop moves on
FetchSkip ==
    /\ fetch_idx \in DOMAIN ApiOrder
    /\ ~NeedsFetch(ApiOrder[fetch_idx])
    /\ fetch_idx' = fetch_idx + 1
    /\ UNCHANGED <<fetch_pass, fetched, last_fetch, cached_at_start, returned_apis, registryVars>>
    /\ UNCHANGED notFetch

\* get_swagger_from_url returns a body: cache it, then drop the recorded error
FetchSucceeds ==
    /\ fetch_idx \in DOMAIN ApiOrder
    /\ LET api_name == ApiOrder[fetch_idx]
           api_url == yaml_apis[api_name] IN
       /\ NeedsFetch(api_name)
       /\ \E body \in FetchBodies :
             swagger_apis' = With(swagger_apis, api_name,
                                  [spec |-> body, url |-> parse_value(api_url)])
       /\ swagger_order' = Append(swagger_order, api_name)
       /\ errors' = ErrorsAfterSuccess(errors, api_url)
       /\ fetched' = [fetched EXCEPT ![api_name] = @ + 1]
       /\ last_fetch' = [last_fetch EXCEPT ![api_name] = "ok"]
    /\ fetch_idx' = fetch_idx + 1
    /\ UNCHANGED <<fetch_pass, cached_at_start, returned_apis, configVars>>
    /\ UNCHANGED notFetch

\* except (ConnectionError, JSONDecodeError): record the url once
FetchFails ==
    /\ fetch_idx \in DOMAIN ApiOrder
    /\ LET api_name == ApiOrder[fetch_idx]
           api_url == yaml_apis[api_name] IN
       /\ NeedsFetch(api_name)
       /\ errors' = ErrorsAfterFailure(errors, api_url)
       /\ fetched' = [fetched EXCEPT ![api_name] = @ + 1]
       /\ \E kind \in FetchFailures :
             last_fetch' = [last_fetch EXCEPT ![api_name] = kind]
    /\ fetch_idx' = fetch_idx + 1
    /\ UNCHANGED <<fetch_pass, cached_at_start, returned_apis, configVars, swagger_apis, swagger_order>>
    /\ UNCHANGED notFetch

\* return self.swagger_apis
FetchReturn ==
    /\ fetch_idx = Len(ApiOrder) + 1
    /\ returned_apis' = swagger_apis
    /\ fetch_idx' = 0
    /\ UNCHANGED <<fetch_pass, fetched, last_fetch, cached_at_start, registryVars>>
    /\ UNCHANGED notFetch

FetchNext ==
    \/ FetchStartPass
    \/ FetchSkip
    \/ FetchSucceeds
    \/ FetchFails
    \/ FetchReturn

----------------------------------------------------------------------------
(* exclude_paths: drop the operations named by yaml_file['exclude_paths'].  *)

\* Rules a configuration's exclude_paths list may hold.
MaxRules == 2

PathTemplates == { <<"/", "p">>, <<"/", "{", "x", "}">> }
Methods == { <<"get">>, <<"post">> }

\* the rules 'METHOD /path' of a configuration
RuleMethods == {"GET", "get", "POST", "Post"}
RuleUniverse == {<<m, " ">> \o p : m \in RuleMethods, p \in PathTemplates}
RuleLists == UNION {[1..n -> RuleUniverse] : n \in 0..MaxRules}

\* an upstream's (or the aggregate's) paths: path -> method -> operation
PathSpecs(owner) == UNION {[ms -> {Operation(owner)}] : ms \in SUBSET Methods}
PathMaps(owner) == UNION {[ps -> PathSpecs(owner)] : ps \in SUBSET PathTemplates}

\* s.split(sep) for a one-element separator
RECURSIVE SplitFrom(_, _, _)
SplitFrom(s, sep, piece) ==
    IF s = <<>> THEN <<piece>>
    ELSE IF Head(s) = sep THEN <<piece>> \o SplitFrom(Tail(s), sep, <<>>)
    ELSE SplitFrom(Tail(s), sep, Append(piece, Head(s)))
Split(s, sep) == SplitFrom(s, sep, <<>>)

\* s.lower()
LowerOf(c) ==
    CASE c \in {"GET", "Get"} -> "get"
      [] c \in {"POST", "Post"} -> "post"
      [] OTHER -> c
Lower(s) == [i \in DOMAIN s |-> LowerOf(s[i])]

\* {p.split(' ')[1]: [p.split(' ')[0].lower()] for p in exclude_paths}:
\* a later rule for the same path replaces the earlier entry
RECURSIVE PathExcludeFrom(_, _)
PathExcludeFrom(rules, n) ==
    IF n = 0 THEN EmptyMap
    ELSE LET p == Split(rules[n], " ")
         IN With(PathExcludeFrom(rules, n - 1), p[2], <<Lower(p[1])>>)
PathExclude(rules) == PathExcludeFrom(rules, Len(rules))

\* exclude_paths(swagger): a deep copy without the excluded actions
ExcludePaths(swagger, rules) ==
    LET path_exclude == PathExclude(rules) IN
    [swagger EXCEPT !.paths =
        [path \in DOMAIN swagger.paths |->
            IF path \in DOMAIN path_exclude
            THEN [action \in DOMAIN swagger.paths[path] \ Range(path_exclude[path])
                    |-> swagger.paths[path][action]]
            ELSE swagger.paths[path]]]

ExcludeInit ==
    /\ exclude_pc = "ready"
    /\ \E paths \in PathMaps(<<"a">>) : exclude_in = [EmptySpec EXCEPT !.paths = paths]
    /\ exclude_out = EmptySpec

ExcludeConfig ==
    /\ yaml_exclude_paths \in RuleLists
    /\ yaml_exclude_fields = EmptyMap
    /\ swagger_order = <<>>
    /\ yaml_apis = [a \in ApiNames |-> CHOOSE u \in UrlTemplates : TRUE]
    /\ swagger_apis = EmptyMap
    /\ errors = <<>>

\* a call exclude_paths(swagger)
ExcludeCall ==
    /\ exclude_pc = "ready"
    /\ exclude_out' = ExcludePaths(exclude_in, yaml_exclude_paths)
    /\ exclude_pc' = "done"
    /\ UNCHANGED <<exclude_in, registryVars>>
    /\ UNCHANGED notExclude

ExcludeNext == ExcludeCall

----------------------------------------------------------------------------
(* merge_aggregates: rename the references of every upstream, then merge   *)
(* its definitions and paths into the aggregate.                           *)

\* a '$ref' string to the definition called name
DefinitionsPrefix == <<"#/definitions/">>
DefRef(name) == DefinitionsPrefix \o name

\* a schema definition of an upstream: the keys it declares ('required',
\* 'properties'), their values, and the references it holds; owner and name
\* stand for the rest of its content
Schema(owner, name, keys, required, properties) ==
    [owner |-> owner, name |-> name, keys |-> keys, required |-> required,
     properties |-> properties, refs |-> {DefRef(name)}]

\* every order in which the keys of a dict may be iterated
Orders(S) == {s \in [1..Cardinality(S) -> S] : Range(s) = S}

\* d.update(e)
Update(d, e) == [k \in DOMAIN d \cup DOMAIN e |-> IF k \in DOMAIN e THEN e[k] ELSE d[k]]

\* json.loads(json.dumps(spec).replace('#/definitions/', '#/definitions/{api}'))
RenameRefs(refs, api) == {Replace(r, DefinitionsPrefix, DefinitionsPrefix \o api) : r \in refs}
RenameSpec(spec, api) ==
    [definitions |-> [n \in DOMAIN spec.definitions |->
                        [spec.definitions[n] EXCEPT !.refs = RenameRefs(@, api)]],
     paths |-> [p \in DOMAIN spec.paths |->
                  [a \in DOMAIN spec.paths[p] |->
                     [spec.paths[p][a] EXCEPT !.refs = RenameRefs(@, api)]]]]

\* the key a definition is stored under in swagger['definitions']
MergedName(api, definition_name) ==
    IF ~StartsWith(definition_name, api) THEN api \o definition_name ELSE definition_name

\* for definition_name, definition_spec in api_spec['spec']['definitions'].items()
RECURSIVE MergeDefinitions(_, _, _, _, _)
MergeDefinitions(target, api, definitions, order, i) ==
    IF i > Len(order) THEN target
    ELSE MergeDefinitions(With(target, MergedName(api, order[i]), definitions[order[i]]),
                          api, definitions, order, i + 1)

\* spec = {}, uri = {}, path_list = {}, action_list = {}
EmptyTables == [spec |-> EmptyMap, uri |-> EmptyMap,
                path_list |-> EmptyMap, action_list |-> EmptyMap]

\* the base swagger of generate_swagger_json
BaseSwagger == [definitions |-> EmptyMap, paths |-> EmptyMap]

\* generate_swagger_json builds the base swagger and calls merge_aggregates,
\* whose get_aggregate_swagger finds every configured upstream cached
MergeStart ==
    /\ gen_pc = "start"
    /\ \A a \in ApiNames : ~NeedsFetch(a)
    /\ base_swagger' = BaseSwagger
    /\ merge_idx' = 1
    /\ gen_pc' = "merge"
    /\ UNCHANGED <<gen_error, gen_todo, gen_tables, uuid_counter, module_funcs,
                   swagger_parser, written, registryVars>>
    /\ UNCHANGED notGenerate

\* one iteration of the loop over swagger_apis.items()
MergeApi ==
    /\ gen_pc = "merge"
    /\ merge_idx \in DOMAIN swagger_order
    /\ LET api == swagger_order[merge_idx]
           spec == RenameSpec(swagger_apis[api].spec, api) IN
       \E order \in Orders(DOMAIN spec.definitions) :
          base_swagger' =
              [definitions |-> MergeDefinitions(base_swagger.definitions, api,
                                                spec.definitions, order, 1),
               paths |-> Update(base_swagger.paths, spec.paths)]
    /\ merge_idx' = merge_idx + 1
    /\ UNCHANGED <<gen_pc, gen_error, gen_todo, gen_tables, uuid_counter, module_funcs,
                   swagger_parser, written, registryVars>>
    /\ UNCHANGED notGenerate

\* merge_aggregates returns
MergeReturn ==
    /\ gen_pc = "merge"
    /\ merge_idx = Len(swagger_order) + 1
    /\ gen_pc' = "exclude"
    /\ UNCHANGED <<gen_error, base_swagger, merge_idx, gen_todo, gen_tables, uuid_counter,
                   module_funcs, swagger_parser, written, registryVars>>
    /\ UNCHANGED notGenerate

MergeNext ==
    \/ MergeStart
    \/ MergeApi
    \/ MergeReturn

\* the schema names the upstreams of a merge may define
MergeDefNames == { <<"T">>, <<"b", "T">>, <<"a", "T">> }
PlainSchema(owner, name) == Schema(owner, name, {"required", "properties"}, <<"id">>, {"id"})
MergeDefinitionMaps(owner) ==
    {[n \in names |-> PlainSchema(owner, n)] : names \in SUBSET MergeDefNames}

\* a fetched spec whose operation refers to every definition of the spec
ReferringSpec(owner, definitions) ==
    [definitions |-> definitions,
     paths |-> [p \in DOMAIN FetchedSpec(owner).paths |->
                  [a \in DOMAIN FetchedSpec(owner).paths[p] |->
                     [FetchedSpec(owner).paths[p][a] EXCEPT
                         !.refs = {DefRef(n) : n \in DOMAIN definitions}]]]]

\* every upstream fetched, in either order, each with some definitions
MergeInit ==
    /\ gen_pc = "start"
    /\ gen_error = "none"
    /\ base_swagger = EmptySpec
    /\ merge_idx = 0
    /\ gen_todo = {}
    /\ gen_tables = EmptyTables
    /\ uuid_counter = 0
    /\ module_funcs = EmptyMap
    /\ swagger_parser = EmptySpec
    /\ written = EmptySpec
    /\ yaml_apis = [a \in ApiNames |-> IF a = <<"a">> THEN <<"h", "1">> ELSE <<"h", "2">>]
    /\ yaml_exclude_paths = <<>>
    /\ yaml_exclude_fields = EmptyMap
    /\ errors = <<>>
    /\ swagger_order \in Orders(ApiNames)
    /\ \E defs \in [ApiNames -> UNION {MergeDefinitionMaps(a) : a \in ApiNames}] :
          /\ \A a \in ApiNames : defs[a] \in MergeDefinitionMaps(a)
          /\ swagger_apis = [a \in ApiNames |->
                               [spec |-> ReferringSpec(a, defs[a]),
                                url |-> parse_value(yaml_apis[a])]]

----------------------------------------------------------------------------
(* generate_swagger_json after the merge: exclude the paths, bind every    *)
(* remaining operation to a generated function, build the parser, remove   *)
(* the excluded fields and write the result.                               *)

Min(S) == CHOOSE x \in S : \A y \in S : x <= y

\* shortuuid's uuid(): a token no earlier call returned
UuidRepeated(counter) == ToString(1)
Uuid(counter) == ToString(counter + 1)

\* 'swagger_aggregator.{0}'.format(func_name)
OperationId(func_name) == <<"swagger_aggregator.", func_name>>

\* the (path, action) pairs of a swagger's paths
Operations(swagger) ==
    {<<path, action>> : path \in DOMAIN swagger.paths, action \in Methods} \cap
    {pa \in PathTemplates \X Methods :
        pa[1] \in DOMAIN swagger.paths /\ pa[2] \in DOMAIN swagger.paths[pa[1]]}

\* get_spec_from_uri(url, action): the first upstream of swagger_apis that has
\* the path answers; path_spec[action] raises KeyError when it lacks the
\* action, and the function returns None when no upstream has the path
NoOperation == [owner |-> <<>>, operationId |-> <<>>, refs |-> {}]
GetSpecFromUri(url, action) ==
    LET holders == {i \in DOMAIN swagger_order :
                       url \in DOMAIN swagger_apis[swagger_order[i]].spec.paths} IN
    IF holders = {} THEN [kind |-> "None", spec |-> NoOperation, url |-> <<>>]
    ELSE LET api_spec == swagger_apis[swagger_order[Min(holders)]]
             path_spec == api_spec.spec.paths[url] IN
         IF action \in DOMAIN path_spec
         THEN [kind |-> "found", spec |-> path_spec[action], url |-> api_spec.url]
         ELSE [kind |-> "KeyError", spec |-> NoOperation, url |-> <<>>]

\* what the function generated under func_name reads from the tables when called
Binding(tables, func_name) ==
    [path |-> tables.path_list[func_name], action |-> tables.action_list[func_name],
     spec |-> tables.spec[func_name], uri |-> tables.uri[func_name]]

\* base_swagger = self.exclude_paths(base_swagger), then the tables are created
GenerateExclude ==
    /\ gen_pc = "exclude"
    /\ base_swagger' = ExcludePaths(base_swagger, yaml_exclude_paths)
    /\ gen_todo' = Operations(base_swagger')
    /\ gen_tables' = EmptyTables
    /\ gen_pc' = "bind"
    /\ UNCHANGED <<gen_error, merge_idx, uuid_counter, module_funcs, swagger_parser,
                   written, registryVars>>
    /\ UNCHANGED notGenerate

\* one iteration of the loops over paths and actions: the lookup succeeds
GenerateBind ==
    /\ gen_pc = "bind"
    /\ \E pa \in gen_todo :
          LET path == pa[1]
              action == pa[2]
              func_name == Uuid(uuid_counter)
              found == GetSpecFromUri(path, action)
              tables == [path_list |-> With(gen_tables.path_list, func_name, path),
                         action_list |-> With(gen_tables.action_list, func_name, action),
                         spec |-> With(gen_tables.spec, func_name, found.spec),
                         uri |-> With(gen_tables.uri, func_name, found.url)] IN
          /\ found.kind = "found"
          /\ gen_tables' = tables
          /\ module_funcs' = With(module_funcs, func_name, Binding(tables, func_name))
          /\ base_swagger' = [base_swagger EXCEPT
                                 !.paths[path][action].operationId = OperationId(func_name)]
          /\ gen_todo' = gen_todo \ {pa}
    /\ uuid_counter' = uuid_counter + 1
    /\ UNCHANGED <<gen_pc, gen_error, merge_idx, swagger_parser, written, registryVars>>
    /\ UNCHANGED notGenerate

\* one iteration of the loops: get_spec_from_uri raises KeyError, or returns
\* None and the tuple assignment raises TypeError
GenerateBindFails ==
    /\ gen_pc = "bind"
    /\ \E pa \in gen_todo :
          LET func_name == Uuid(uuid_counter)
              found == GetSpecFromUri(pa[1], pa[2]) IN
          /\ found.kind # "found"
          /\ gen_tables' = [gen_tables EXCEPT
                               !.path_list = With(@, func_name, pa[1]),
                               !.action_list = With(@, func_name, pa[2])]
          /\ gen_error' = IF found.kind = "KeyError" THEN "bind: KeyError"
                          ELSE "bind: TypeError"
    /\ uuid_counter' = uuid_counter + 1
    /\ gen_pc' = "failed"
    /\ UNCHANGED <<base_swagger, merge_idx, gen_todo, module_funcs, swagger_parser,
                   written, registryVars>>
    /\ UNCHANGED notGenerate

\* self.swagger_parser = SwaggerParser(swagger_dict=deepcopy(base_swagger))
GenerateParser ==
    /\ gen_pc = "bind"
    /\ gen_todo = {}
    /\ swagger_parser' = base_swagger
    /\ gen_pc' = "fields"
    /\ UNCHANGED <<gen_error, base_swagger, merge_idx, gen_todo, gen_tables, uuid_counter,
                   module_funcs, written, registryVars>>
    /\ UNCHANGED notGenerate

\* self.yaml_file['exclude_fields'][definition_name], when the name has a rule
HasFieldRule(definition_name) == definition_name \in DOMAIN yaml_exclude_fields

\* for key in ...: the required list and the properties map without the keys
RECURSIVE RemoveFields(_, _, _)
RemoveFields(definition_spec, keys, i) ==
    IF i > Len(keys) THEN definition_spec
    ELSE RemoveFields([definition_spec EXCEPT
                          !.required = RemoveFirst(@, keys[i]),
                          !.properties = @ \ {keys[i]}],
                      keys, i + 1)

\* definition_spec['required'] or definition_spec['properties'] of a definition
\* that does not declare the key raises KeyError
FieldLookupFails(definition_spec, keys) ==
    /\ keys # <<>>
    /\ \/ "required" \notin definition_spec.keys
       \/ "properties" \notin definition_spec.keys

FailingDefinitions ==
    {n \in DOMAIN base_swagger.definitions :
        /\ HasFieldRule(n)
        /\ FieldLookupFails(base_swagger.definitions[n], yaml_exclude_fields[n])}

\* the loop removing exclude_fields from the definitions runs to its end
GenerateExcludeFields ==
    /\ gen_pc = "fields"
    /\ FailingDefinitions = {}
    /\ base_swagger' = [base_swagger EXCEPT !.definitions =
          [n \in DOMAIN base_swagger.definitions |->
              IF HasFieldRule(n)
              THEN RemoveFields(base_swagger.definitions[n], yaml_exclude_fields[n], 1)
              ELSE base_swagger.definitions[n]]]
    /\ gen_pc' = "write"
    /\ UNCHANGED <<gen_error, merge_idx, gen_todo, gen_tables, uuid_counter, module_funcs,
                   swagger_parser, written, registryVars>>
    /\ UNCHANGED notGenerate

\* the loop reaches a definition with a rule that lacks 'required' or 'properties'
GenerateExcludeFieldsFails ==
    /\ gen_pc = "fields"
    /\ FailingDefinitions # {}
    /\ gen_error' = "fields: KeyError"
    /\ gen_pc' = "failed"
    /\ UNCHANGED <<base_swagger, merge_idx, gen_todo, gen_tables, uuid_counter,
                   module_funcs, swagger_parser, written, registryVars>>
    /\ UNCHANGED notGenerate

\* f.write(yaml.dump(base_swagger, default_flow_style=False))
GenerateWrite ==
    /\ gen_pc = "write"
    /\ written' = base_swagger
    /\ gen_pc' = "done"
    /\ UNCHANGED <<gen_error, base_swagger, merge_idx, gen_todo, gen_tables, uuid_counter,
                   module_funcs, swagger_parser, registryVars>>
    /\ UNCHANGED notGenerate

GenerateNext ==
    \/ MergeStart
    \/ MergeApi
    \/ MergeReturn
    \/ GenerateExclude
    \/ GenerateBind
    \/ GenerateBindFails
    \/ GenerateParser
    \/ GenerateExcludeFields
    \/ GenerateExcludeFieldsFails
    \/ GenerateWrite

\* the configurations and upstream specs of a pass.  Either the paths and the
\* exclusion rules vary, or the definitions and the field rules do.
GenRuleUniverse == { <<"GET", " ", "/", "p">>, <<"post", " ", "/", "p">> }
GenRuleLists == UNION {[1..n -> GenRuleUniverse] : n \in 0..MaxRules}
SharedPathMaps(owner) == {pm \in PathMaps(owner) : DOMAIN pm \subseteq {<<"/", "p">>}}

FieldNames == {"id", "test"}
GenDefNames == { <<"T">>, <<"U">> }
SchemaBodies(owner, name) ==
    { Schema(owner, name, {"required", "properties"}, <<"id", "test">>, FieldNames),
      Schema(owner, name, {"required", "properties"}, <<"test">>, FieldNames),
      Schema(owner, name, {"properties"}, <<>>, FieldNames),
      Schema(owner, name, {"required"}, <<"id">>, {}),
      Schema(owner, name, {}, <<>>, {}) }
GenDefinitionMaps(owner) ==
    {d \in UNION {[names -> UNION {SchemaBodies(owner, n) : n \in GenDefNames}]
                     : names \in SUBSET GenDefNames} :
        \A n \in DOMAIN d : d[n] \in SchemaBodies(owner, n)}
FieldLists == { <<>>, <<"id">>, <<"id", "other">> }
GenFieldRules(owner) ==
    UNION {[names -> FieldLists] : names \in SUBSET {owner \o n : n \in GenDefNames}}

GenPathInputs ==
    {[paths |-> [a \in ApiNames |-> IF a = <<"a">> THEN pa ELSE pb],
      definitions |-> [a \in ApiNames |-> EmptyMap],
      rules |-> rules, fields |-> EmptyMap] :
        pa \in PathMaps(<<"a">>), pb \in SharedPathMaps(<<"a", "b">>), rules \in GenRuleLists}
GenFieldInputs ==
    {[paths |-> [a \in ApiNames |-> FetchedSpec(a).paths],
      definitions |-> [a \in ApiNames |-> IF a = <<"a">> THEN defs ELSE EmptyMap],
      rules |-> <<>>, fields |-> fields] :
        defs \in GenDefinitionMaps(<<"a">>), fields \in GenFieldRules(<<"a">>)}

\* every upstream fetched, in either order; no pass has run
GenerateInit ==
    /\ gen_pc = "start"
    /\ gen_error = "none"
    /\ base_swagger = EmptySpec
    /\ merge_idx = 0
    /\ gen_todo = {}
    /\ gen_tables = EmptyTables
    /\ uuid_counter = 0
    /\ module_funcs = EmptyMap
    /\ swagger_parser = EmptySpec
    /\ written = EmptySpec
    /\ yaml_apis = [a \in ApiNames |-> IF a = <<"a">> THEN <<"h", "1">> ELSE <<"h", "2">>]
    /\ errors = <<>>
    /\ swagger_order \in Orders(ApiNames)
    /\ \E in \in GenPathInputs \cup GenFieldInputs :
          /\ yaml_exclude_paths = in.rules
          /\ yaml_exclude_fields = in.fields
          /\ swagger_apis = [a \in ApiNames |->
                               [spec |-> [definitions |-> in.definitions[a],
                                          paths |-> in.paths[a]],
                                url |-> parse_value(yaml_apis[a])]]

----------------------------------------------------------------------------
(* filter_definition: remove the excluded fields from a response document. *)

\* Elements a list of a document may hold.
MaxListLen == 2

\* a JSON value: a scalar (its value in x), a dict (key -> value, in d) or a
\* list (in l); the fields a kind does not use are empty
Scalar(x) == [t |-> "scalar", x |-> x, d |-> EmptyMap, l |-> <<>>]
Dict(f) == [t |-> "dict", x |-> 0, d |-> f, l |-> <<>>]
List(s) == [t |-> "list", x |-> 0, d |-> EmptyMap, l |-> s]

DocKeys == {"id", "test"}
Scalars == {Scalar(1), Scalar(2)}
DictsOf(S) == {Dict(f) : f \in UNION {[ks -> S] : ks \in SUBSET DocKeys}}
ListsOf(S) == {List(s) : s \in UNION {[1..n -> S] : n \in 0..MaxListLen}}
FlatDocs == Scalars \cup DictsOf(Scalars) \cup ListsOf(Scalars)
Docs == Scalars \cup DictsOf(FlatDocs) \cup ListsOf(FlatDocs)

\* swagger_parser.get_dict_definition(doc) returns a definition name, or None
NoDefinition == <<>>
FilterSchema == <<"a", "T">>
Resolvers == [SUBSET DocKeys -> {NoDefinition, FilterSchema}]

\* self.yaml_file.get('exclude_fields', {}).get(doc_definition, [])
KeysToRemove(doc) ==
    LET doc_definition == get_dict_definition[DOMAIN doc.d] IN
    IF doc_definition \in DOMAIN yaml_exclude_fields
    THEN yaml_exclude_fields[doc_definition] ELSE <<>>

\* for key in keys_to_remove: del doc[key] raises KeyError for a key the dict
\* does not hold; the error of a nested call propagates
RECURSIVE FilterRaises(_)
FilterRaises(doc) ==
    CASE doc.t = "dict" ->
            \/ \E i \in DOMAIN KeysToRemove(doc) : KeysToRemove(doc)[i] \notin DOMAIN doc.d
            \/ \E k \in DOMAIN doc.d \ Range(KeysToRemove(doc)) : FilterRaises(doc.d[k])
      [] doc.t = "list" -> \E i \in DOMAIN doc.l : FilterRaises(doc.l[i])
      [] OTHER -> FALSE

\* the document filter_definition returns when nothing raises
RECURSIVE FilterDefinition(_)
FilterDefinition(doc) ==
    CASE doc.t = "dict" ->
            Dict([k \in DOMAIN doc.d \ Range(KeysToRemove(doc)) |-> FilterDefinition(doc.d[k])])
      [] doc.t = "list" -> List([i \in DOMAIN doc.l |-> FilterDefinition(doc.l[i])])
      [] OTHER -> doc

FilterInit ==
    /\ get_dict_definition \in Resolvers
    /\ filter_pc = "ready"
    /\ filter_doc \in Docs
    /\ filter_out = [raised |-> "none", doc |-> Scalar(1)]

FilterConfig ==
    /\ yaml_exclude_fields \in
          {EmptyMap} \cup {[n \in {FilterSchema} |-> keys] : keys \in {<<"id">>, <<"id", "test">>}}
    /\ yaml_exclude_paths = <<>>
    /\ yaml_apis = [a \in ApiNames |-> CHOOSE u \in UrlTemplates : TRUE]
    /\ swagger_apis = EmptyMap
    /\ swagger_order = <<>>
    /\ errors = <<>>

\* a call filter_definition(doc) that returns
FilterCall ==
    /\ filter_pc = "ready"
    /\ ~FilterRaises(filter_doc)
    /\ filter_out' = [raised |-> "none", doc |-> FilterDefinition(filter_doc)]
    /\ filter_pc' = "done"
    /\ UNCHANGED <<get_dict_definition, filter_doc, registryVars>>
    /\ UNCHANGED notFilter

\* a call filter_definition(doc) that raises
FilterCallRaises ==
    /\ filter_pc = "ready"
    /\ FilterRaises(filter_doc)
    /\ filter_out' = [raised |-> "KeyError", doc |-> Scalar(1)]
    /\ filter_pc' = "done"
    /\ UNCHANGED <<get_dict_definition, filter_doc, registryVars>>
    /\ UNCHANGED notFilter

FilterNext ==
    \/ FilterCall
    \/ FilterCallRaises

----------------------------------------------------------------------------
(* generate_operation_id_function.func: the function registered for one    *)
(* operation builds the upstream url and sends the request.                *)

Max(S) == CHOOSE x \in S : \A y \in S : y <= x

\* re.findall('{(.+)}', url): the leftmost '{' that a '}' follows after at
\* least one character starts the only match, which the greedy '.+' extends
\* to the last '}' of the url
FindAllParams(url) ==
    LET closes(i) == {j \in DOMAIN url : j >= i + 2 /\ url[j] = "}"}
        opens == {i \in DOMAIN url : url[i] = "{" /\ closes(i) # {}} IN
    IF opens = {} THEN <<>>
    ELSE LET i == Min(opens) IN <<SubSeq(url, i + 1, Max(closes(i)) - 1)>>

\* str(v) of a path parameter
Str(v) == <<ToString(v)>>

\* for path_param in re.findall(p, url): for k, v in kwargs.items(): ...
RECURSIVE ReplaceParams(_, _, _, _)
ReplaceParams(url, params, kwargs, i) ==
    IF i > Len(params) THEN url
    ELSE ReplaceParams(IF params[i] \in DOMAIN kwargs
                       THEN Replace(url, <<"{">> \o params[i] \o <<"}">>, Str(kwargs[params[i]]))
                       ELSE url,
                       params, kwargs, i + 1)

\* u'{0}{1}?{2}'.format(uri, path, query_string), then the substitution
BuildUrl(uri, path, query_string, kwargs) ==
    LET url == uri \o path \o <<"?">> \o query_string IN
    ReplaceParams(url, FindAllParams(url), kwargs, 1)

NothingSent == [method |-> <<>>, url |-> <<>>]

\* the path templates, parameters and query strings of a request
DispatchTemplates ==
    { <<"/", "p">>,
      <<"/", "{", "x", "}">>,
      <<"/", "{", "x", "}", "/", "p">>,
      <<"/", "{", "x", "}", "/", "{", "y", "}">>,
      <<"/", "p", "/", "{", "y", "}", "/", "q", "/", "{", "x", "}">> }
ParamNames == { <<"x">>, <<"y">> }
ParamValues == {7, 42}
QueryStrings == { <<>>, <<"q", "=", "1">> }

DispatchInit ==
    /\ dispatch_pc = "ready"
    /\ dispatch_func = Uuid(0)
    /\ dispatch_kwargs \in [ParamNames -> ParamValues]
    /\ dispatch_query \in QueryStrings
    /\ dispatch_url = <<>>
    /\ dispatch_sent = NothingSent

\* one function is registered, for an operation of an upstream
DispatchRegistered ==
    /\ gen_pc = "idle"
    /\ gen_error = "none"
    /\ base_swagger = EmptySpec
    /\ merge_idx = 0
    /\ gen_todo = {}
    /\ gen_tables = EmptyTables
    /\ uuid_counter = 1
    /\ swagger_parser = EmptySpec
    /\ written = EmptySpec
    /\ \E path \in DispatchTemplates, action \in Methods, a \in ApiNames :
          module_funcs = [f \in {Uuid(0)} |->
                            [path |-> path, action |-> action, spec |-> Operation(a),
                             uri |-> parse_value(yaml_apis[a])]]

\* func builds the url from its binding and the request
DispatchBuildUrl ==
    /\ dispatch_pc = "ready"
    /\ LET binding == module_funcs[dispatch_func] IN
       dispatch_url' = BuildUrl(binding.uri, binding.path, dispatch_query, dispatch_kwargs)
    /\ dispatch_pc' = "built"
    /\ UNCHANGED <<dispatch_func, dispatch_kwargs, dispatch_query, dispatch_sent>>
    /\ UNCHANGED notDispatch

\* requests_meth = getattr(requests, action[func.__name__]); requests_meth(url, ...)
DispatchSend ==
    /\ dispatch_pc = "built"
    /\ dispatch_sent' = [method |-> module_funcs[dispatch_func].action, url |-> dispatch_url]
    /\ dispatch_pc' = "sent"
    /\ UNCHANGED <<dispatch_func, dispatch_kwargs, dispatch_query, dispatch_url>>
    /\ UNCHANGED notDispatch

DispatchNext ==
    \/ DispatchBuildUrl
    \/ DispatchSend

----------------------------------------------------------------------------
(* Requests served while generate_swagger_json runs again: the functions   *)
(* registered by a pass stay in the module, and filter_definition reads    *)
(* self.swagger_parser when the response arrives.                          *)

\* the calls of generate_swagger_json that are followed
MaxCalls == 2

\* generate_swagger_json is called again, after the previous call has
\* returned or raised
ServeCallAgain ==
    /\ gen_pc \in {"done", "failed"}
    /\ serve_calls < MaxCalls
    /\ serve_calls' = serve_calls + 1
    /\ gen_pc' = "start"
    /\ gen_error' = "none"
    /\ UNCHANGED <<base_swagger, merge_idx, gen_todo, gen_tables, uuid_counter,
                   module_funcs, swagger_parser, written, registryVars, serve_parser>>
    /\ UNCHANGED <<retryVars, fetchVars, excludeVars, filterVars, dispatchVars>>

\* the functions named by the operationIds of the written swagger.yaml
PublishedFuncs ==
    {f \in DOMAIN module_funcs :
        \E pa \in Operations(written) :
            written.paths[pa[1]][pa[2]].operationId = OperationId(f)}

\* the requests that arrive: their path parameters and query string
ServeRequests ==
    {[kwargs |-> [n \in ParamNames |-> v], query |-> q] :
        v \in {Max(ParamValues)}, q \in QueryStrings}

\* a request arrives for an operation of the written swagger.yaml and func,
\* the function its operationId names, is called
ServeStart ==
    /\ dispatch_pc = "idle"
    /\ \E f \in PublishedFuncs : dispatch_func' = f
    /\ \E request \in ServeRequests :
          /\ dispatch_kwargs' = request.kwargs
          /\ dispatch_query' = request.query
    /\ dispatch_url' = <<>>
    /\ dispatch_sent' = NothingSent
    /\ dispatch_pc' = "ready"
    /\ UNCHANGED serve_parser
    /\ UNCHANGED <<serve_calls, retryVars, registryVars, fetchVars, excludeVars,
                   generateVars, filterVars>>

\* self.filter_definition(req.json()): the response is a dict, and
\* filter_definition asks self.swagger_parser for its definition
ServeFilter ==
    /\ dispatch_pc = "sent"
    /\ serve_parser' = swagger_parser
    /\ dispatch_pc' = "filtered"
    /\ UNCHANGED <<dispatch_func, dispatch_kwargs, dispatch_query, dispatch_url,
                   dispatch_sent>>
    /\ UNCHANGED <<serve_calls, retryVars, registryVars, fetchVars, excludeVars,
                   generateVars, filterVars>>

\* func returns the filtered document and the status code; its locals are gone
ServeReturn ==
    /\ dispatch_pc = "filtered"
    /\ dispatch_pc' = "idle"
    /\ dispatch_func' = ""
    /\ dispatch_kwargs' = EmptyMap
    /\ dispatch_query' = <<>>
    /\ dispatch_url' = <<>>
    /\ dispatch_sent' = NothingSent
    /\ serve_parser' = EmptySpec
    /\ UNCHANGED <<serve_calls, retryVars, registryVars, fetchVars, excludeVars,
                   generateVars, filterVars>>

ServeNext ==
    \/ MergeStart
    \/ MergeApi
    \/ MergeReturn
    \/ GenerateExclude
    \/ GenerateBind
    \/ GenerateBindFails
    \/ GenerateParser
    \/ GenerateExcludeFields
    \/ GenerateExcludeFieldsFails
    \/ GenerateWrite
    \/ ServeCallAgain
    \/ ServeStart
    \/ DispatchBuildUrl
    \/ DispatchSend
    \/ ServeFilter
    \/ ServeReturn

\* ---- further components ----

----------------------------------------------------------------------------
(* Specifications: one per component, the other components at rest.        *)

RegistryIdle ==
    /\ yaml_apis = [a \in ApiNames |-> CHOOSE u \in UrlTemplates : TRUE]
    /\ yaml_exclude_paths = <<>>
    /\ yaml_exclude_fields = EmptyMap
    /\ swagger_order = <<>>
    /\ swagger_apis = EmptyMap
    /\ errors = <<>>

RetryIdle ==
    /\ retry_pc = "idle"
    /\ total_sleep_time = 0
    /\ request_nb = 0
    /\ last_exception = NoException
    /\ slept = 0
    /\ sleep_calls = 0
    /\ history = <<>>
    /\ retry_result = NoException

ExcludeIdle ==
    /\ exclude_pc = "idle"
    /\ exclude_in = EmptySpec
    /\ exclude_out = EmptySpec

GenerateIdle ==
    /\ gen_pc = "idle"
    /\ gen_error = "none"
    /\ base_swagger = EmptySpec
    /\ merge_idx = 0
    /\ gen_todo = {}
    /\ gen_tables = EmptyTables
    /\ uuid_counter = 0
    /\ module_funcs = EmptyMap
    /\ swagger_parser = EmptySpec
    /\ written = EmptySpec

FilterIdle ==
    /\ get_dict_definition = [ks \in SUBSET DocKeys |-> NoDefinition]
    /\ filter_pc = "idle"
    /\ filter_doc = Scalar(1)
    /\ filter_out = [raised |-> "none", doc |-> Scalar(1)]

DispatchIdle ==
    /\ dispatch_pc = "idle"
    /\ dispatch_func = ""
    /\ dispatch_kwargs = EmptyMap
    /\ dispatch_query = <<>>
    /\ dispatch_url = <<>>
    /\ dispatch_sent = NothingSent

\* generate_swagger_json called once at most, no response filtered
ServeIdle ==
    /\ serve_calls = 1
    /\ serve_parser = EmptySpec

InitRetry ==
    /\ RetryInit /\ RegistryIdle /\ FetchIdle /\ ExcludeIdle /\ GenerateIdle /\ FilterIdle
    /\ DispatchIdle /\ ServeIdle
SpecRetry == InitRetry /\ [][RetryNext]_vars

InitFetch ==
    /\ RegistryInit /\ FetchIdle /\ RetryIdle /\ ExcludeIdle /\ GenerateIdle /\ FilterIdle
    /\ DispatchIdle /\ ServeIdle
SpecFetch == InitFetch /\ [][FetchNext]_vars

InitExclude ==
    /\ ExcludeInit /\ ExcludeConfig /\ RetryIdle /\ FetchIdle /\ GenerateIdle /\ FilterIdle
    /\ DispatchIdle /\ ServeIdle
SpecExclude == InitExclude /\ [][ExcludeNext]_vars

InitMerge ==
    /\ MergeInit /\ RetryIdle /\ FetchIdle /\ ExcludeIdle /\ FilterIdle /\ DispatchIdle
    /\ ServeIdle
SpecMerge == InitMerge /\ [][MergeNext]_vars

InitGenerate ==
    /\ GenerateInit /\ RetryIdle /\ FetchIdle /\ ExcludeIdle /\ FilterIdle /\ DispatchIdle
    /\ ServeIdle
SpecGenerate == InitGenerate /\ [][GenerateNext]_vars

InitFilter ==
    /\ FilterInit /\ FilterConfig /\ RetryIdle /\ FetchIdle /\ ExcludeIdle /\ GenerateIdle
    /\ DispatchIdle /\ ServeIdle
SpecFilter == InitFilter /\ [][FilterNext]_vars

InitDispatch ==
    /\ RegistryIdle /\ DispatchRegistered /\ DispatchInit /\ RetryIdle /\ FetchIdle
    /\ ExcludeIdle /\ FilterIdle /\ ServeIdle
SpecDispatch == InitDispatch /\ [][DispatchNext]_vars

\* the first call of generate_swagger_json is about to run; the upstreams
\* share one path template and one schema name
InitServe ==
    /\ GenerateInit /\ RetryIdle /\ FetchIdle /\ ExcludeIdle /\ FilterIdle /\ DispatchIdle
    /\ ServeIdle
    /\ yaml_exclude_paths = <<>>
    /\ DOMAIN yaml_exclude_fields \subseteq { <<"a", "T">> }
    /\ \A a \in ApiNames :
          /\ DOMAIN swagger_apis[a].spec.paths \subseteq { <<"/", "p">> }
          /\ DOMAIN swagger_apis[a].spec.definitions \subseteq { <<"T">> }
SpecServe == InitServe /\ [][ServeNext]_vars

----------------------------------------------------------------------------
(* Claims.                                                                 *)

Last(s) == s[Len(s)]

\* C1: one call through retry_http never sleeps a cumulative 10 seconds or
\* more: the time slept so far stays strictly below max_sleep_time.
C1_SleptBelowCap == slept < max_sleep_time

C6_ErrorIffLastFetchFailed ==
    fetch_idx = 0 =>
    /\ \A a \in ApiNames :
          /\ (yaml_apis[a] \in Range(errors)) <=> (last_fetch[a] \in FetchFailures)
          /\ last_fetch[a] \in FetchFailures => a \notin DOMAIN swagger_apis
          /\ ~(a \in DOMAIN swagger_apis /\ yaml_apis[a] \in Range(errors))
    /\ \A i, j \in DOMAIN errors : errors[i] = errors[j] => i = j

\* C7: a cached upstream is never fetched again and its cached spec and url
\* never change; a pass fetches every upstream that was not cached exactly
\* once, whatever the other fetches did; and the pass returns the specs of
\* exactly the upstreams fetched successfully so far.
C7_CachedStay ==
    \A a \in DOMAIN swagger_apis :
        /\ a \in DOMAIN swagger_apis'
        /\ swagger_apis'[a] = swagger_apis[a]
        /\ fetched'[a] <= fetched[a]
C7_PassComplete ==
    (fetch_idx = 0 /\ fetch_pass > 0) =>
        /\ \A a \in ApiNames : fetched[a] = (IF a \in cached_at_start THEN 0 ELSE 1)
        /\ DOMAIN returned_apis = {a \in ApiNames : last_fetch[a] = "ok"}
        /\ returned_apis = swagger_apis
        /\ \A a \in DOMAIN returned_apis : returned_apis[a].url = parse_value(yaml_apis[a])
C7_FetchOncePerPass == [][C7_CachedStay]_vars /\ []C7_PassComplete

\* C7 witness: a second pass has ended with one upstream cached by the first
\* pass and another whose fetch failed in the second.
C7_SecondPassMixed ==
    /\ fetch_idx = 0
    /\ fetch_pass = 2
    /\ \E a, b \in ApiNames :
          /\ a \in cached_at_start
          /\ last_fetch[b] \in FetchFailures
          /\ fetched[b] = 1

\* what a rule 'METHOD /path' names
RuleNames(rule, path, action) ==
    /\ SubSeq(rule, 3, Len(rule)) = path
    /\ <<LowerOf(rule[1])>> = action
HasOperation(swagger, path, action) ==
    /\ path \in DOMAIN swagger.paths
    /\ action \in DOMAIN swagger.paths[path]

\* C3: exclude_paths returns a spec where an operation (path, method) is
\* present exactly when it is present in the input and no rule of the list
\* names that path with that method; the operations kept are unchanged.
C3_ExcludesEveryRule ==
    exclude_pc = "done" =>
        /\ DOMAIN exclude_out.paths = DOMAIN exclude_in.paths
        /\ \A path \in PathTemplates, action \in Methods :
              HasOperation(exclude_out, path, action) <=>
                  /\ HasOperation(exclude_in, path, action)
                  /\ ~\E i \in DOMAIN yaml_exclude_paths :
                        RuleNames(yaml_exclude_paths[i], path, action)
        /\ \A path \in DOMAIN exclude_out.paths :
              \A action \in DOMAIN exclude_out.paths[path] :
                  exclude_out.paths[path][action] = exclude_in.paths[path][action]


\* C4: after merge_aggregates every definition of every upstream is in the
\* aggregated definitions under its final name (the upstream name prefixed,
\* or the name itself when it starts with the upstream name), so that no
\* definition is overwritten by another one.
C4_EveryDefinitionKept ==
    gen_pc = "exclude" =>
        \A api \in DOMAIN swagger_apis :
            \A name \in DOMAIN swagger_apis[api].spec.definitions :
                LET final == IF StartsWith(name, api) THEN name ELSE api \o name IN
                /\ final \in DOMAIN base_swagger.definitions
                /\ base_swagger.definitions[final].owner = api
                /\ base_swagger.definitions[final].name = name


\* C9: after a pass every operation that survived exclusion carries an
\* operationId naming a registered function whose binding holds that path
\* and that method, no two operations share an operationId, and no function
\* is registered for an operation that exclusion removed.
C9_OperationIdsMatchBindings ==
    gen_pc = "done" =>
        /\ \A pa \in Operations(written) :
              \E f \in DOMAIN module_funcs :
                  /\ written.paths[pa[1]][pa[2]].operationId = OperationId(f)
                  /\ module_funcs[f].path = pa[1]
                  /\ module_funcs[f].action = pa[2]
        /\ \A pa, pb \in Operations(written) :
              written.paths[pa[1]][pa[2]].operationId = written.paths[pb[1]][pb[2]].operationId
                  => pa = pb
        /\ \A f \in DOMAIN module_funcs :
              <<module_funcs[f].path, module_funcs[f].action>> \in Operations(written)

\* C9 witness: a finished pass that bound two operations or more and whose
\* exclusion rules removed an operation of an upstream.
C9_PassBoundSeveral ==
    /\ gen_pc = "done"
    /\ Cardinality(DOMAIN module_funcs) >= 2
    /\ \E i \in DOMAIN yaml_exclude_paths, a \in ApiNames :
          \E pa \in Operations(swagger_apis[a].spec) :
              /\ RuleNames(yaml_exclude_paths[i], pa[1], pa[2])
              /\ pa \notin Operations(written)

\* C10: the pass does not fail while removing the excluded fields, whatever
\* keys a definition declares, and after it a definition with a rule has none
\* of the listed names in its required list or its properties, keeps its
\* other required names and properties, and a definition without a rule is
\* unchanged.
C10_FieldsRemoved ==
    /\ gen_pc = "failed" => gen_error # "fields: KeyError"
    /\ gen_pc = "done" =>
          /\ DOMAIN written.definitions = DOMAIN swagger_parser.definitions
          /\ \A n \in DOMAIN written.definitions :
                LET before == swagger_parser.definitions[n]
                    after == written.definitions[n]
                    listed == IF n \in DOMAIN yaml_exclude_fields
                              THEN Range(yaml_exclude_fields[n]) ELSE {} IN
                /\ after.required = SelectSeq(before.required, LAMBDA k : k \notin listed)
                /\ after.properties = before.properties \ listed
                /\ after.keys = before.keys
                /\ listed = {} => after = before


\* the redaction of a value: a dict loses the names listed for its schema
\* and keeps every other key with its redacted value, a list keeps its
\* length and order, a scalar is unchanged
RECURSIVE Redacted(_, _)
Redacted(before, after) ==
    /\ after.t = before.t
    /\ CASE before.t = "dict" ->
              /\ DOMAIN after.d = DOMAIN before.d \ Range(KeysToRemove(before))
              /\ \A k \in DOMAIN after.d : Redacted(before.d[k], after.d[k])
         [] before.t = "list" ->
              /\ Len(after.l) = Len(before.l)
              /\ \A i \in DOMAIN after.l : Redacted(before.l[i], after.l[i])
         [] OTHER -> after = before

\* C5: filter_definition returns without error, for any nested value, the
\* redaction of that value; a listed name the object does not hold is skipped.
C5_FilterRedacts ==
    filter_pc = "done" =>
        /\ filter_out.raised = "none"
        /\ Redacted(filter_doc, filter_out.doc)


\* a path template with every brace-delimited {name} that has an entry in
\* params replaced by the string of its value, the rest unchanged
RECURSIVE Substituted(_, _)
Substituted(template, params) ==
    IF template = <<>> THEN <<>>
    ELSE LET closes == {j \in DOMAIN template : template[j] = "}"} IN
         IF Head(template) = "{" /\ closes # {}
               /\ SubSeq(template, 2, Min(closes) - 1) \in DOMAIN params
         THEN Str(params[SubSeq(template, 2, Min(closes) - 1)])
                 \o Substituted(SubSeq(template, Min(closes) + 1, Len(template)), params)
         ELSE <<Head(template)>> \o Substituted(Tail(template), params)

\* C8: the url a generated function requests is the upstream base url, the
\* path template with every {name} placeholder replaced by the string of
\* pathParams[name], '?' and the query string, for templates with one
\* placeholder and with several alike.
C8_UrlSubstitutesEveryPlaceholder ==
    dispatch_pc = "sent" =>
        LET binding == module_funcs[dispatch_func] IN
        dispatch_sent.url = binding.uri \o Substituted(binding.path, dispatch_kwargs)
                               \o <<"?">> \o dispatch_query


\* the schema name a '$ref' string points at
RefTarget(ref) == SubSeq(ref, Len(DefinitionsPrefix) + 1, Len(ref))

\* the '$ref' strings of a spec's paths and definitions
RefsOf(spec) ==
    UNION {spec.definitions[n].refs : n \in DOMAIN spec.definitions} \cup
    UNION {UNION {spec.paths[p][a].refs : a \in DOMAIN spec.paths[p]} :
              p \in DOMAIN spec.paths}

\* every reference of an upstream's own spec points at one of its definitions
SelfContained(spec) == \A r \in RefsOf(spec) : RefTarget(r) \in DOMAIN spec.definitions

\* C12: after merge_aggregates, for every upstream whose references all point
\* at its own definitions, every reference '#/definitions/X' of its paths and
\* definitions, rewritten to '#/definitions/{upstream}X', names a key of the
\* aggregated definitions that holds that upstream's definition X; this
\* includes a schema name X that starts with the upstream's name.
C12_ReferencesResolve ==
    gen_pc = "exclude" =>
        \A api \in DOMAIN swagger_apis :
            SelfContained(swagger_apis[api].spec) =>
                \A r \in RefsOf(swagger_apis[api].spec) :
                    LET renamed == RefTarget(Replace(r, DefinitionsPrefix,
                                                     DefinitionsPrefix \o api)) IN
                    /\ renamed = api \o RefTarget(r)
                    /\ renamed \in DOMAIN base_swagger.definitions
                    /\ base_swagger.definitions[renamed].owner = api
                    /\ base_swagger.definitions[renamed].name = RefTarget(r)

\* the same, for upstreams none of whose schema names starts with an
\* upstream's name or collides with another upstream's prefixed name
C12_PlainNamesResolve ==
    (\A api \in DOMAIN swagger_apis :
        DOMAIN swagger_apis[api].spec.definitions \subseteq { <<"T">> })
        => C12_ReferencesResolve


\* the upstreams that contribute the path template
Contributors(path) == {a \in DOMAIN swagger_apis : path \in DOMAIN swagger_apis[a].spec.paths}

\* C13: the lookup of get_spec_from_uri fails for no operation of the merged
\* paths, and every registered binding holds the base url and the raw
\* operation of the upstream whose path entry is the one in the merged paths
\* (the upstream merged last for that path template), also when several
\* upstreams contribute the same path template.
C13_BindingOwnsOperation ==
    /\ gen_pc = "failed" => gen_error \notin {"bind: KeyError", "bind: TypeError"}
    /\ gen_pc \in {"bind", "fields", "write", "done"} =>
          \A f \in DOMAIN module_funcs :
              LET path == module_funcs[f].path
                  action == module_funcs[f].action
                  owner == base_swagger.paths[path][action].owner IN
              /\ owner \in Contributors(path)
              /\ \A i \in DOMAIN swagger_order :
                    swagger_order[i] \in Contributors(path) =>
                        \E j \in DOMAIN swagger_order : j >= i /\ swagger_order[j] = owner
              /\ module_funcs[f].uri = swagger_apis[owner].url
              /\ module_funcs[f].spec = swagger_apis[owner].spec.paths[path][action]

\* the same, for passes in which no path template has two contributors
C13_SinglyContributedBound ==
    (\A path \in PathTemplates : Cardinality(Contributors(path)) <= 1)
        => C13_BindingOwnsOperation


\* C11: a request served while generate_swagger_json runs uses one snapshot:
\* the swagger_parser its filter reads is the one built by the pass that
\* registered the function serving it, the pass whose swagger.yaml was the
\* written one when the request started.  The parser of that pass holds the
\* function's operationId at the function's path and method; the parser of
\* any other pass, finished or not, does not.
C11_DispatchSeesOneSnapshot ==
    dispatch_pc = "filtered" =>
        LET binding == module_funcs[dispatch_func] IN
        /\ HasOperation(serve_parser, binding.path, binding.action)
        /\ serve_parser.paths[binding.path][binding.action].operationId
              = OperationId(dispatch_func)

\* the same, as long as generate_swagger_json has been called once only
C11_SingleCallSnapshot == serve_calls = 1 => C11_DispatchSeesOneSnapshot

====
